---- MODULE Spec2Model ----
(***************************************************************************)
(* Split execution of snuba queries.                                       *)
(*                                                                         *)
(* Two generations of the same logic live in the repository:               *)
(*   - snuba/web/split.py: TimeSplitQueryStrategy and                      *)
(*     ColumnSplitQueryStrategy, each with its own __can_execute;          *)
(*   - snuba/datasets/plans/split.py: SplitQueryPlanExecutionStrategy,     *)
(*     which decides between column split, time split and the default      *)
(*     strategy (snuba/datasets/plans/single_table.py) in one method.      *)
(*                                                                         *)
(* One behaviour of the model is one call of one of the three execute      *)
(* methods on one Request, cut at its runner calls, or one call of         *)
(* SingleTableQueryPlanBuilder.build_plan followed by the execution        *)
(* strategy of the plan it returned.  Time is counted in seconds; a        *)
(* datetime is an integer, an ISO string is the record [iso |-> t].        *)
(***************************************************************************)
EXTENDS Integers, Sequences, FiniteSets, TLC

\* ------------------------------------------------------------------ bounds
MaxTime == 3        \* timestamps range over 0 .. MaxTime
MaxLimit == 2       \* limits of the time-split scenarios range over 1 .. MaxLimit
MaxOffset == 2      \* offsets of the time-split scenarios range over 0 .. MaxOffset
MaxRows == 3        \* rows in the store
MaxStep == 2        \* configured split_step ranges over 1 .. MaxStep
MaxProcessors == 2  \* query processors of a storage, post-processors of a builder

\* ------------------------------------------------------- program constants
STEP_GROWTH == 10
OffsetGuard == 1000

NoLimit == 0 - 1    \* Query.get_limit() returning None

\* The largest number of seconds timedelta(seconds=...) takes without an
\* OverflowError, scaled to the ranges of the model: more than any range,
\* less than a step grown twice.
TimedeltaMax == 50

\* timedelta.max is 999999999 days: where the instants of a run are hours, no
\* step of that many hours or fewer overflows.
TimedeltaMaxDays == 999999999

\* The hour-scale runs: the configured window is 1 .. MaxWindowHours hours and
\* the range RangeDays days.
MaxWindowHours == 3

\* subscriptions.run handles MaxSignals signals at most.
MaxSignals == 2
HoursPerDay == 24
RangeDays == 90

Times == 0 .. MaxTime

id_column == "event_id"
project_column == "project_id"
timestamp_column == "timestamp"

Min2(a, b) == IF a < b THEN a ELSE b
Max2(a, b) == IF a > b THEN a ELSE b

\* ------------------------------------------------------------- date helpers
\* datetime.isoformat()
isoformat(t) == [iso |-> t]

\* util.parse_datetime(value, alignment): parse, then round down to a multiple
\* of alignment seconds.
parse_datetime(value, alignment) == value.iso - (value.iso % alignment)

\* math.ceil(a / float(b)) for a >= 0, b > 0
CeilDiv(a, b) == (a + b - 1) \div b

\* --------------------------------------------------------------- the query
\* f"-{column}" and its inverse for the columns the model orders by
Desc(col) == IF col = "timestamp" THEN "-timestamp" ELSE "-other"
OrderColumn(ob) == IF ob \in {"-timestamp", "timestamp"} THEN "timestamp" ELSE "other"

SeqRange(s) == {s[i] : i \in DOMAIN s}

\* Query.get_all_referenced_columns(): every column the query names, in its
\* selected columns, conditions, group by, aggregations and order by.
get_all_referenced_columns(query) ==
    SeqRange(query.selected_columns)
        \cup {query.conditions[i][1] : i \in DOMAIN query.conditions}
        \cup SeqRange(query.groupby)
        \cup SeqRange(query.aggregations)
        \cup {OrderColumn(query.orderby[i]) : i \in DOMAIN query.orderby}

\* ColumnSplitQueryStrategy.__get_min_columns / ColumnSplitSpec.get_min_columns
get_min_columns == <<id_column, project_column, timestamp_column>>

_identify_condition(condition, field, operand) ==
    condition[1] = field /\ condition[2] = operand

\* _replace_condition: every condition on (field, operand) gets the new literal
_replace_condition(query, field, operand, new_literal) ==
    [query EXCEPT !.conditions =
        [i \in DOMAIN query.conditions |->
            IF _identify_condition(query.conditions[i], field, operand)
            THEN <<field, operand, new_literal>>
            ELSE query.conditions[i]]]

\* Query.add_conditions
add_conditions(query, conds) == [query EXCEPT !.conditions = @ \o conds]

\* next(condition[2] for condition in conditions if _identify_condition(...))
FirstLiteral(query, field, operand) ==
    LET idx == {i \in DOMAIN query.conditions :
                    _identify_condition(query.conditions[i], field, operand)}
        first == CHOOSE i \in idx : \A j \in idx : i <= j
    IN query.conditions[first][3]

HasCondition(query, field, operand) ==
    \E i \in DOMAIN query.conditions :
        _identify_condition(query.conditions[i], field, operand)


\* -------------------------------------------------------------- predicates
_is_query_splittable_NoLimit(query, use_split) ==
    use_split > 0 /\ query.groupby = <<>>

_is_query_splittable_FlagOne(query, use_split) ==
    LET query_limit == IF query.limit = NoLimit THEN 0 ELSE query.limit
    IN use_split = 1 /\ query_limit > 0 /\ query.groupby = <<>>

\* _is_query_splittable (snuba/web/split.py)
_is_query_splittable(query, use_split) ==
    LET query_limit == IF query.limit = NoLimit THEN 0 ELSE query.limit
    IN use_split > 0 /\ query_limit > 0 /\ query.groupby = <<>>

TimeCanExecute_OffsetInclusive(req, cfg) ==
    /\ _is_query_splittable(req.query, cfg.use_split)
    /\ HasCondition(req.query, timestamp_column, ">=")
    /\ HasCondition(req.query, timestamp_column, "<")
    /\ SubSeq(req.query.orderby, 1, Min2(1, Len(req.query.orderby)))
            = <<Desc(timestamp_column)>>
    /\ req.query.offset <= OffsetGuard

\* TimeSplitQueryStrategy.__can_execute
TimeCanExecute(req, cfg) ==
    LET orderby == req.query.orderby
        has_from_date == HasCondition(req.query, timestamp_column, ">=")
        has_to_date == HasCondition(req.query, timestamp_column, "<")
    IN /\ _is_query_splittable(req.query, cfg.use_split)
       /\ has_from_date
       /\ has_to_date
       /\ SubSeq(orderby, 1, Min2(1, Len(orderby))) = <<Desc(timestamp_column)>>
       /\ req.query.offset < OffsetGuard

ColCanExecute_AtLeast(req, cfg) ==
    /\ _is_query_splittable(req.query, cfg.use_split)
    /\ Len(req.query.selected_columns) > 0
    /\ req.query.aggregations = <<>>
    /\ Cardinality(get_all_referenced_columns(req.query))
         >= Cardinality(get_all_referenced_columns(
                [req.query EXCEPT !.selected_columns = get_min_columns]))

\* ColumnSplitQueryStrategy.__can_execute
ColCanExecute(req, cfg) ==
    LET total_col_count == Cardinality(get_all_referenced_columns(req.query))
        copied_query == [req.query EXCEPT !.selected_columns = get_min_columns]
        min_col_count == Cardinality(get_all_referenced_columns(copied_query))
        selected_cols == req.query.selected_columns
    IN /\ _is_query_splittable(req.query, cfg.use_split)
       /\ Len(selected_cols) > 0
       /\ req.query.aggregations = <<>>
       /\ total_col_count > min_col_count

PlanCommonConditions_NoGroupBy(req, cfg) ==
    LET limit0 == IF req.query.limit = NoLimit THEN 0 ELSE req.query.limit
    IN cfg.use_split # 0 /\ limit0 # 0

\* SplitQueryPlanExecutionStrategy.execute: common_conditions
PlanCommonConditions(req, cfg) ==
    LET limit0 == IF req.query.limit = NoLimit THEN 0 ELSE req.query.limit
    IN cfg.use_split # 0 /\ limit0 # 0 /\ req.query.groupby = <<>>

\* SplitQueryPlanExecutionStrategy.execute: the branch that takes __col_split
PlanColApplies(req, cfg) ==
    LET total_col_count == Cardinality(get_all_referenced_columns(req.query))
        copied_query == [req.query EXCEPT !.selected_columns = get_min_columns]
        min_col_count == Cardinality(get_all_referenced_columns(copied_query))
    IN /\ cfg.split_spec
       /\ Len(req.query.selected_columns) > 0
       /\ req.query.aggregations = <<>>
       /\ total_col_count > min_col_count

\* SplitQueryPlanExecutionStrategy.execute: the elif that takes __time_split
PlanTimeApplies(req) ==
    LET orderby == req.query.orderby
    IN /\ SubSeq(orderby, 1, Min2(1, Len(orderby))) = <<"-timestamp">>
       /\ req.query.offset < OffsetGuard

\* The path SplitQueryPlanExecutionStrategy.execute takes.
PlanPath(req, cfg) ==
    IF PlanCommonConditions(req, cfg)
    THEN IF PlanColApplies(req, cfg) THEN "col"
         ELSE IF PlanTimeApplies(req) THEN "time"
         ELSE "direct"
    ELSE "direct"

\* ------------------------------------------------------------- the runner
\* The store behind a faithful runner holds MaxRows rows at most.  Timestamps
\* do not decrease with the id, so that no store is enumerated twice.
Row(i, t) == [event_id |-> i, project_id |-> 1 + (i % 2), timestamp |-> isoformat(t)]

Absent == 0 - 1

Stores ==
    {{Row(i, f[i]) : i \in {j \in 1 .. MaxRows : f[j] # Absent}} :
        f \in {g \in [1 .. MaxRows -> Times \cup {Absent}] :
                  \A i \in 1 .. MaxRows - 1 : g[i] <= g[i + 1]}}

\* One condition of the query on one row of the store.
Holds(cond, row) ==
    IF cond[1] \notin DOMAIN row THEN TRUE
    ELSE CASE cond[2] = ">=" -> row[cond[1]].iso >= cond[3].iso
           [] cond[2] = "<" -> row[cond[1]].iso < cond[3].iso
           [] cond[2] = "IN" -> row[cond[1]] \in cond[3].list
           [] cond[2] = "=" -> row[cond[1]] = cond[3]
           [] OTHER -> TRUE

\* The rows a request asks for: every condition of the query, and the time
\* range and the projects of the extensions.
Matching(req, rows) ==
    {r \in rows :
        /\ \A i \in DOMAIN req.query.conditions : Holds(req.query.conditions[i], r)
        /\ r.timestamp.iso >= req.extensions.timeseries.from_date.iso
        /\ r.timestamp.iso < req.extensions.timeseries.to_date.iso
        /\ r.project_id \in req.extensions.project.project}

\* ORDER BY: timestamp descending or ascending, the id breaking ties.
Before(x, y, orderby) ==
    \/ x = y
    \/ IF orderby # <<>> /\ orderby[1] = "-timestamp" /\ x.timestamp.iso # y.timestamp.iso
       THEN x.timestamp.iso > y.timestamp.iso
       ELSE IF orderby # <<>> /\ orderby[1] = "timestamp" /\ x.timestamp.iso # y.timestamp.iso
       THEN x.timestamp.iso < y.timestamp.iso
       ELSE x.event_id < y.event_id

RECURSIVE Sorted(_, _)
Sorted(rows, orderby) ==
    IF rows = {} THEN <<>>
    ELSE LET r == CHOOSE x \in rows : \A y \in rows : Before(x, y, orderby)
         IN <<r>> \o Sorted(rows \ {r}, orderby)

\* LIMIT limit OFFSET offset
Page(rows, limit, offset) ==
    LET last == IF limit = NoLimit THEN Len(rows) ELSE Min2(Len(rows), offset + limit)
    IN SubSeq(rows, offset + 1, last)

\* What a faithful store answers to one request.
RunQuery(req, rows) ==
    Page(Sorted(Matching(req, rows), req.query.orderby), req.query.limit, req.query.offset)


\* A runner of which nothing is known answers any number of these rows.
AnyPool == Sorted({Row(i, i % (MaxTime + 1)) : i \in 1 .. MaxRows}, <<"-timestamp">>)

NoneResult == [isNone |-> TRUE, data |-> <<>>]
Result(rows) == [isNone |-> FALSE, data |-> rows]

\* What the runner may do to the request it is handed.
Mutate(req) ==
    [req EXCEPT !.query = add_conditions(@, << <<"deleted", "=", [list |-> {0}]>> >>)]

\* --------------------------------------------------------------- the state
VARIABLES
    config,             \* state.get_configs: use_split, date_align_seconds, split_step
    store,              \* the rows behind the runner
    runner,             \* "faithful": the store's answer; "any": any rows, may raise, may mutate
    entry,              \* what is called: execute of "time", "col" (web/split.py) or
                        \* "plan" (plans/split.py), or build_plan of the "single"
                        \* or the "selected" table builder and then the strategy
                        \* of its plan
    request,            \* the caller's Request object
    snapshot,           \* a deep copy of it taken before the call
    pc,                 \* "start", "time_loop", "col_phase2", "built", "returned", "raised",
                        \* "selector_failed"
    path,               \* which code issues the runner calls: "none", "col", "time", "direct"
    limit, remaining_offset, from_date, to_date,
    split_start, split_end, split_step, total_results,
    overall_result,     \* the time split's accumulator
    first_result,       \* the column split's first-phase result
    calls,              \* the runner calls so far
    ret,                \* the value execute returned
    builder,            \* the plan builder: its storage and its post-processors
    plan,               \* the StorageQueryPlan build_plan returned
    selector_calls,     \* the select_storage calls so far
    reference           \* the run of SplitQueryPlanExecutionStrategy a run of the
                        \* strategies of web/split.py on the same request is
                        \* compared with
VARIABLES
    \* subscriptions.run
    shutdown_requested, \* the Event: whether it is set
    futures,            \* per consumer: "none" (not created), "starting", "waiting"
                        \* (in shutdown_requested.wait()), "finished", "failed"
    run_pc,             \* where run is
    handlers,           \* the signals whose handler is installed
    signals,            \* the signals handled so far
    outcomes            \* the results run has collected, per consumer

vars == <<config, store, runner, entry, request, snapshot, pc, path,
          limit, remaining_offset, from_date, to_date,
          split_start, split_end, split_step, total_results,
          overall_result, first_result, calls, ret, builder, plan,
          selector_calls, reference,
          shutdown_requested, futures, run_pc, handlers, signals, outcomes>>

subscription_vars == <<shutdown_requested, futures, run_pc, handlers, signals, outcomes>>

loop_vars == <<limit, remaining_offset, from_date, to_date,
               split_start, split_end, split_step, total_results, overall_result>>

env_vars == <<config, store, runner, entry, snapshot, builder, reference, subscription_vars>>

\* ------------------------------------------------------------ the requests
NoSource == "none"  \* a query on which set_data_source was not called

NoStorage == [data_source |-> NoSource, query_processors |-> <<>>]

NoBuilder == [storage |-> NoStorage, post_processors |-> <<>>, selectable |-> {}]
NoPlan == [query_processors |-> <<>>, execution_strategy |-> "none"]

MkRequest(sel, conds, groupby, aggs, orderby, lim, off, A, B, P) ==
    [query |-> [selected_columns |-> sel, conditions |-> conds, groupby |-> groupby,
                aggregations |-> aggs, orderby |-> orderby, limit |-> lim, offset |-> off,
                data_source |-> NoSource],
     extensions |-> [timeseries |-> [from_date |-> isoformat(A), to_date |-> isoformat(B)],
                     project |-> [project |-> P]],
     settings |-> [turbo |-> FALSE]]

\* The conditions the project and timeseries extensions put on a query.
ProjectCondition(P) == <<project_column, "IN", [list |-> P]>>
FromCondition(A) == <<timestamp_column, ">=", isoformat(A)>>
ToCondition(B) == <<timestamp_column, "<", isoformat(B)>>

AllProjects == {1, 2}

MkConfig(use_split, date_align, step, spec) ==
    [use_split |-> use_split, date_align |-> date_align, split_step |-> step,
     split_spec |-> spec, timedelta_max |-> TimedeltaMax]

\* The configuration of a run whose instants are hours.
MkHoursConfig(step) ==
    [MkConfig(1, 1, step, TRUE) EXCEPT !.timedelta_max = TimedeltaMaxDays]

\* The state before the call: every variable of the call at its initial value.
\* No run to compare with.
NoReference ==
    [done |-> FALSE, path |-> "none", pc |-> "start", calls |-> <<>>, ret |-> NoneResult]

\* subscriptions.run(): before its first statement.
Consumers == <<"commit-log-consumer", "subscriptions-consumer", "dataset-consumer">>

SubscriptionsSetup ==
    /\ shutdown_requested = FALSE
    /\ futures = [i \in DOMAIN Consumers |-> "none"]
    /\ run_pc = "create"
    /\ handlers = {}
    /\ signals = 0
    /\ outcomes = [i \in DOMAIN Consumers |-> "none"]

SetupBuilder(e, req, cfg, rows, r, b) ==
    /\ SubscriptionsSetup
    /\ builder = b
    /\ reference = NoReference
    /\ plan = NoPlan
    /\ selector_calls = <<>>
    /\ config = cfg
    /\ store = rows
    /\ runner = r
    /\ entry = e
    /\ request = req
    /\ snapshot = req
    /\ pc = "start"
    /\ path = "none"
    /\ limit = 0
    /\ remaining_offset = 0
    /\ from_date = 0
    /\ to_date = 0
    /\ split_start = 0
    /\ split_end = 0
    /\ split_step = 0
    /\ total_results = 0
    /\ overall_result = NoneResult
    /\ first_result = NoneResult
    /\ calls = <<>>
    /\ ret = NoneResult

\* The same for a call of a split strategy, which has no plan builder.
Setup(e, req, cfg, rows, r) == SetupBuilder(e, req, cfg, rows, r, NoBuilder)

\* A range longer than one grown step, so that an empty store takes three probes.
LongEnd == STEP_GROWTH + 2

\* Time split over a faithful store: every range (the empty and the inverted
\* ones too), limit, offset, step and store.
InitTime ==
    \E e \in {"time", "plan"}, A \in {0, 1}, B \in Times \cup {LongEnd},
       L \in 1 .. MaxLimit, O \in 0 .. MaxOffset, s \in 1 .. MaxStep, rows \in Stores :
        Setup(e,
              MkRequest(<<id_column>>,
                        <<ProjectCondition(AllProjects), FromCondition(A), ToCondition(B)>>,
                        <<>>, <<>>, <<"-timestamp">>, L, O, A, B, AllProjects),
              MkConfig(1, 1, s, TRUE), rows, "faithful")

\* The same with date_align_seconds = 2 and the bounds the timeseries extension
\* writes under it (multiples of 2).
InitAlign ==
    \E e \in {"time", "plan"}, A \in {t \in Times : t % 2 = 0},
       B \in {t \in Times : t % 2 = 0}, L \in 1 .. MaxLimit, rows \in Stores :
        Setup(e,
              MkRequest(<<id_column>>,
                        <<ProjectCondition(AllProjects), FromCondition(A), ToCondition(B)>>,
                        <<>>, <<>>, <<"-timestamp">>, L, 0, A, B, AllProjects),
              MkConfig(1, 2, 1, TRUE), rows, "faithful")

\* Column split over a faithful store.
InitCol ==
    \E e \in {"col", "plan"}, B \in {MaxTime, MaxTime + 1}, P \in {AllProjects, {1}},
       ob \in {<<"-timestamp">>, <<>>}, L \in 1 .. MaxLimit, O \in 0 .. 1,
       rows \in Stores :
        Setup(e,
              MkRequest(<<id_column, "payload">>,
                        <<ProjectCondition(P), FromCondition(0), ToCondition(B)>>,
                        <<>>, <<>>, ob, L, O, 0, B, P),
              MkConfig(1, 1, 1, TRUE), rows, "faithful")

\* Column split over a faithful store, the project filter in its other shapes:
\* an equality condition, or the project extension alone.
InitProject ==
    \E e \in {"col", "plan"}, shape \in {"eq", "ext"}, P \in {AllProjects, {1}},
       L \in 1 .. MaxLimit, O \in 0 .. 1, rows \in Stores :
        Setup(e,
              MkRequest(<<id_column, "payload", "message">>,
                        (IF shape = "eq" THEN << <<project_column, "=", 1>> >> ELSE <<>>)
                            \o <<FromCondition(0), ToCondition(MaxTime + 1)>>,
                        <<>>, <<>>, <<"-timestamp">>, L, O, 0, MaxTime + 1, P),
              MkConfig(1, 1, 1, TRUE), rows, "faithful")

\* The names of the query processors a storage or a builder may list.
Processors == {"BasicFunctionsProcessor", "PrewhereProcessor"}

\* The processor lists of at most MaxProcessors entries.
ProcessorLists ==
    UNION {[1 .. n -> Processors] : n \in 0 .. MaxProcessors}

\* A single-table plan builder: any two processor lists, the request already
\* bound to another data source or to none, a runner of which nothing is known.
InitBuilder ==
    \E sp \in ProcessorLists, pp \in ProcessorLists, L \in {NoLimit, 1},
       src \in {NoSource, "other_table"} :
        SetupBuilder("single",
                     [MkRequest(<<id_column>>, <<ProjectCondition(AllProjects)>>,
                                <<>>, <<>>, <<>>, L, 0, 0, MaxTime, AllProjects)
                        EXCEPT !.query.data_source = src],
                     MkConfig(1, 1, 1, FALSE), {}, "any",
                     [storage |-> [data_source |-> "events_table", query_processors |-> sp],
                      post_processors |-> pp, selectable |-> {}])

\* A selected-table plan builder: a selector that answers one of two storages
\* or fails, any post-processors, any settings of the request.
InitSelected ==
    \E sp \in ProcessorLists, pp \in ProcessorLists, L \in {NoLimit, 1},
       turbo \in BOOLEAN :
        SetupBuilder("selected",
                     [MkRequest(<<id_column>>, <<ProjectCondition(AllProjects)>>,
                                <<>>, <<>>, <<>>, L, 0, 0, MaxTime, AllProjects)
                        EXCEPT !.settings.turbo = turbo],
                     MkConfig(1, 1, 1, FALSE), {}, "any",
                     [storage |-> NoStorage, post_processors |-> pp,
                      selectable |->
                        {[data_source |-> "events_table", query_processors |-> sp],
                         [data_source |-> "errors_table",
                          query_processors |-> <<"PrewhereProcessor">>]}])

\* Every combination of what the preconditions read.
InitGuard ==
    \E e \in {"time", "col", "plan"},
       sel \in {<<>>, <<id_column>>, <<id_column, "payload">>},
       conds \in {<<>>, <<FromCondition(0)>>, <<ToCondition(MaxTime)>>,
                  <<FromCondition(0), ToCondition(MaxTime)>>},
       groupby \in {<<>>, <<project_column>>},
       aggs \in {<<>>, <<"count">>},
       ob \in {<<>>, <<"-timestamp">>, <<"timestamp">>},
       L \in {NoLimit, 0, 1}, O \in {0, OffsetGuard},
       use_split \in {0, 1, 2}, spec \in BOOLEAN :
        Setup(e,
              MkRequest(sel, <<ProjectCondition(AllProjects)>> \o conds,
                        groupby, aggs, ob, L, O, 0, MaxTime, AllProjects),
              MkConfig(use_split, 1, 1, spec),
              {Row(1, 0), Row(2, MaxTime - 1)}, "faithful")

\* A runner of which nothing is known: any rows, any failure, any mutation.
InitAny ==
    \E e \in {"time", "col", "plan"},
       sel \in {<<id_column>>, <<id_column, "payload">>},
       A \in {0, 1}, B \in Times \cup {LongEnd}, L \in 1 .. MaxLimit,
       O \in 0 .. MaxOffset, s \in 1 .. MaxStep :
        Setup(e,
              MkRequest(sel,
                        <<ProjectCondition(AllProjects), FromCondition(A), ToCondition(B)>>,
                        <<>>, <<>>, <<"-timestamp">>, L, O, A, B, AllProjects),
              MkConfig(1, 1, s, TRUE), {}, "any")

\* Time split at the scale of hours: a range of RangeDays days and a window
\* of a few hours, over a faithful store whose rows, if any, are in the oldest
\* hours of the range.
InitHours ==
    \E e \in {"time", "plan"}, h \in 1 .. MaxWindowHours, L \in 1 .. MaxLimit,
       rows \in Stores :
        Setup(e,
              MkRequest(<<id_column>>,
                        <<ProjectCondition(AllProjects), FromCondition(0),
                          ToCondition(RangeDays * HoursPerDay)>>,
                        <<>>, <<>>, <<"-timestamp">>, L, 0, 0,
                        RangeDays * HoursPerDay, AllProjects),
              MkHoursConfig(h), rows, "faithful")

Init ==
    InitTime \/ InitAlign \/ InitCol \/ InitProject \/ InitGuard \/ InitAny
        \/ InitBuilder \/ InitSelected \/ InitHours

\* --------------------------------------------------------- calling the runner
\* What one runner call may come to: an error, or rows (of a runner of which
\* nothing is known, the same row twice as well); and whether the runner
\* mutated the Request object it was handed.
RunnerOutcomes(req) ==
    IF runner = "faithful"
    THEN {[raised |-> FALSE, data |-> RunQuery(req, store), mutates |-> FALSE]}
    ELSE {[raised |-> FALSE, data |-> SubSeq(AnyPool, 1, n), mutates |-> m] :
              n \in 0 .. MaxRows, m \in BOOLEAN}
         \cup {[raised |-> FALSE, data |-> <<AnyPool[1], AnyPool[1]>>, mutates |-> m] :
                  m \in BOOLEAN}
         \cup {[raised |-> TRUE, data |-> <<>>, mutates |-> m] : m \in BOOLEAN}

RunnerRaises_Swallowed(out) == FALSE

\* Whether an outcome ends the method: no call of the runner is inside a try,
\* so its error leaves execute.
RunnerRaises(out) == out.raised

\* The record of one runner call: the object handed over ("original" is the
\* caller's Request, "copy" a deep copy made for this call), its value at the
\* call, the code that called, and what came back.
Call(obj, req, p, out) ==
    [obj |-> obj, request |-> req, path |-> p, raised |-> out.raised, data |-> out.data]

\* The caller's Request after a runner call on the object obj.
AfterCall(obj, out) ==
    IF obj = "original" /\ out.mutates THEN Mutate(request) ELSE request

\* ------------------------------------------------------------ the time split
\* to_date and from_date: read from the query's conditions by
\* TimeSplitQueryStrategy.execute, from the timeseries extension by
\* SplitQueryPlanExecutionStrategy.__time_split.
ToDate(req, cfg, impl) ==
    IF impl = "web"
    THEN parse_datetime(FirstLiteral(req.query, timestamp_column, "<"), cfg.date_align)
    ELSE parse_datetime(req.extensions.timeseries.to_date, cfg.date_align)

FromDate(req, cfg, impl) ==
    IF impl = "web"
    THEN parse_datetime(FirstLiteral(req.query, timestamp_column, ">="), cfg.date_align)
    ELSE parse_datetime(req.extensions.timeseries.from_date, cfg.date_align)

NextSplitStart_Unclamped(end, step, from) == end - step

NextSplitStart_Floor0(end, step, from) == Max2(end - step, 0)

NextSplitStart_OverflowStops(end, step, from) ==
    IF step > config.timedelta_max THEN end ELSE Max2(end - step, from)

\* split_start = max(split_end - timedelta(seconds=split_step), from_date);
\* "except OverflowError: split_start = from_date" when the step is more than
\* a timedelta holds.  The first computation, before the loop, is in no try:
\* the configured steps of the model are below TimedeltaMax.
NextSplitStart(end, step, from) ==
    IF step > config.timedelta_max THEN from ELSE Max2(end - step, from)

SubLimit_NoOffset(lim, total, offset) == lim - total

\* A sub-limit that forgets the rows already collected.
SubLimit_IgnoreTotal(lim, total, offset) == lim + offset

\* set_limit(limit - total_results + remaining_offset): the rows still to
\* collect and the rows still to skip.
SubLimit(lim, total, offset) == lim - total + offset

TimeSplitRequest_KeepOffset(req, impl, start, end, lim, total, offset) ==
    LET bounded ==
            IF impl = "web"
            THEN [req EXCEPT !.query =
                    _replace_condition(
                        _replace_condition(@, timestamp_column, ">=", isoformat(start)),
                        timestamp_column, "<", isoformat(end))]
            ELSE [req EXCEPT
                    !.extensions.timeseries.from_date = isoformat(start),
                    !.extensions.timeseries.to_date = isoformat(end),
                    !.query = add_conditions(@, << <<"timestamp", ">=", isoformat(start)>>,
                                                   <<"timestamp", "<", isoformat(end)>> >>)]
    IN [bounded EXCEPT !.query.limit = SubLimit(lim, total, offset)]

\* The sub-request of one iteration, built from a deep copy of the request.
TimeSplitRequest(req, impl, start, end, lim, total, offset) ==
    LET bounded ==
            IF impl = "web"
            THEN [req EXCEPT !.query =
                    _replace_condition(
                        _replace_condition(@, timestamp_column, ">=", isoformat(start)),
                        timestamp_column, "<", isoformat(end))]
            ELSE [req EXCEPT
                    !.extensions.timeseries.from_date = isoformat(start),
                    !.extensions.timeseries.to_date = isoformat(end),
                    !.query = add_conditions(@, << <<"timestamp", ">=", isoformat(start)>>,
                                                   <<"timestamp", "<", isoformat(end)>> >>)]
    IN [bounded EXCEPT !.query.offset = 0, !.query.limit = SubLimit(lim, total, offset)]

Accumulate_Prepend(overall, data) ==
    IF overall.isNone THEN data ELSE data \o overall.data

\* overall_result after the sub-result is added to it.
Accumulate(overall, data) ==
    IF overall.isNone THEN data ELSE overall.data \o data

ToTrim_All(offset, data) ==
    IF offset > 0 /\ Len(data) > 0 THEN Len(data) ELSE 0

\* to_trim: how much of the accumulator the remaining offset takes.
ToTrim(offset, data) ==
    IF offset > 0 /\ Len(data) > 0 THEN Min2(offset, Len(data)) ELSE 0

\* len(result.result["data"]) where the next step is decided.  In the first
\* iteration overall_result and result are one object, so the trimming has
\* replaced result's data as well; later the sub-result is its own object.
ResultLen(overall, data, trimmed) ==
    IF overall.isNone THEN Len(trimmed) ELSE Len(data)

NeedsMore_Inclusive(total, lim) == total <= lim

\* "if total_results < limit": whether the window is grown and slid after an
\* iteration.
NeedsMore(total, lim) == total < lim

\* A window that an empty probe does not grow.
NextStep_NoGrowth(step, lim, total, result_len) ==
    IF result_len = 0
    THEN step
    ELSE step * CeilDiv(lim - total, result_len)

\* split_step for the next iteration, total < lim rows being collected.
NextStep(step, lim, total, result_len) ==
    IF result_len = 0
    THEN step * STEP_GROWTH
    ELSE step * CeilDiv(lim - total, result_len)

\* The end of the next window: a window that leaves an instant out.
NextSplitEnd_Gap(start, end) == start - 1

\* The end of the next window: a window that does not slide.
NextSplitEnd_Stay(start, end) == end

\* split_end = split_start: the next window ends where this one started.
NextSplitEnd(start, end) == start

Impl == IF entry = "plan" THEN "plan" ELSE "web"

\* The statements before the loop.
EnterTimeSplit ==
    /\ limit' = (IF request.query.limit = NoLimit THEN 0 ELSE request.query.limit)
    /\ remaining_offset' = request.query.offset
    /\ to_date' = ToDate(request, config, Impl)
    /\ from_date' = FromDate(request, config, Impl)
    /\ split_step' = config.split_step
    /\ split_end' = to_date'
    /\ split_start' = NextSplitStart(split_end', split_step', from_date')
    /\ total_results' = 0
    /\ overall_result' = NoneResult
    /\ pc' = "time_loop"
    /\ path' = "time"
    /\ UNCHANGED <<env_vars, plan, selector_calls, request, first_result, calls, ret>>

\* One iteration of the loop: one sub-query.
TimeSplitProbe ==
    /\ pc = "time_loop"
    /\ split_start < split_end /\ total_results < limit
    /\ LET split_request == TimeSplitRequest(request, Impl, split_start, split_end,
                                             limit, total_results, remaining_offset)
       IN \E out \in RunnerOutcomes(split_request) :
            /\ calls' = Append(calls, Call("copy", split_request, "time", out))
            /\ request' = AfterCall("copy", out)
            /\ IF RunnerRaises(out)
               THEN /\ pc' = "raised"
                    /\ UNCHANGED loop_vars
               ELSE LET appended == Accumulate(overall_result, out.data)
                        to_trim == ToTrim(remaining_offset, appended)
                        trimmed == SubSeq(appended, to_trim + 1, Len(appended))
                        total == Len(trimmed)
                        result_len == ResultLen(overall_result, out.data, trimmed)
                        step == IF NeedsMore(total, limit)
                                THEN NextStep(split_step, limit, total, result_len)
                                ELSE split_step
                    IN /\ overall_result' = Result(trimmed)
                       /\ remaining_offset' = remaining_offset - to_trim
                       /\ total_results' = total
                       /\ split_step' = step
                       /\ split_end' = (IF NeedsMore(total, limit)
                                        THEN NextSplitEnd(split_start, split_end)
                                        ELSE split_end)
                       /\ split_start' = (IF NeedsMore(total, limit)
                                          THEN NextSplitStart(split_start, step, from_date)
                                          ELSE split_start)
                       /\ pc' = "time_loop"
                       /\ UNCHANGED <<limit, from_date, to_date>>
    /\ UNCHANGED <<env_vars, plan, selector_calls, path, first_result, ret>>

\* The loop is over: return overall_result.
TimeSplitReturn ==
    /\ pc = "time_loop"
    /\ ~(split_start < split_end /\ total_results < limit)
    /\ ret' = overall_result
    /\ pc' = "returned"
    /\ UNCHANGED <<env_vars, plan, selector_calls, request, path, loop_vars, first_result, calls>>

\* TimeSplitQueryStrategy.execute, up to the loop.
TimeSplitExecute ==
    /\ pc = "start" /\ entry = "time"
    /\ IF TimeCanExecute(request, config)
       THEN EnterTimeSplit
       ELSE /\ ret' = NoneResult
            /\ pc' = "returned"
            /\ UNCHANGED <<env_vars, plan, selector_calls, request, path, loop_vars, first_result, calls>>


\* ---------------------------------------------------------- the column split
\* min(timestamps) and max(timestamps) of the first-phase rows
MinTimestamp(data) ==
    LET ts == {data[i].timestamp : i \in DOMAIN data}
    IN CHOOSE t \in ts : \A u \in ts : t.iso <= u.iso

MaxTimestamp(data) ==
    LET ts == {data[i].timestamp : i \in DOMAIN data}
    IN CHOOSE t \in ts : \A u \in ts : t.iso >= u.iso

ColLowerBound_Newest(data) == isoformat(parse_datetime(MaxTimestamp(data), 1))

\* The lower bound of the second phase: the oldest first-phase timestamp.
ColLowerBound(data) == isoformat(parse_datetime(MinTimestamp(data), 1))

ColUpperBound_NoSecond(data) == isoformat(parse_datetime(MaxTimestamp(data), 1))

\* The upper bound of the second phase: one second after the newest
\* first-phase timestamp, the bound being exclusive.
ColUpperBound(data) == isoformat(parse_datetime(MaxTimestamp(data), 1) + 1)

\* The first-phase request: a deep copy selecting the minimal columns.
\* A first phase that asks for every column.
ColMinimalRequest_Full(req) == req

ColMinimalRequest(req) == [req EXCEPT !.query.selected_columns = get_min_columns]

ColSecondRequest_RowCount(req, impl, data) ==
    LET event_ids == {data[i][id_column] : i \in DOMAIN data}
        project_ids == {data[i][project_column] : i \in DOMAIN data}
        paged == [req EXCEPT
                    !.query = [add_conditions(@, << <<id_column, "IN", [list |-> event_ids]>> >>)
                                  EXCEPT !.offset = 0, !.limit = Len(data)]]
    IN IF impl = "web"
       THEN [paged EXCEPT !.query =
                _replace_condition(
                    _replace_condition(
                        _replace_condition(@, project_column, "IN", [list |-> project_ids]),
                        timestamp_column, ">=", ColLowerBound(data)),
                    timestamp_column, "<", ColUpperBound(data))]
       ELSE [paged EXCEPT
                !.extensions.project.project = project_ids,
                !.extensions.timeseries.from_date = ColLowerBound(data),
                !.extensions.timeseries.to_date = ColUpperBound(data)]

\* The second-phase request when the first phase found rows: a deep copy of
\* the request, narrowed to those rows.  ColumnSplitQueryStrategy.execute
\* rewrites the query's conditions, __col_split the extensions.
ColSecondRequest(req, impl, data) ==
    LET event_ids == {data[i][id_column] : i \in DOMAIN data}
        project_ids == {data[i][project_column] : i \in DOMAIN data}
        lower == ColLowerBound(data)
        upper == ColUpperBound(data)
        paged == [req EXCEPT
                    !.query = [add_conditions(@, << <<id_column, "IN", [list |-> event_ids]>> >>)
                                  EXCEPT !.offset = 0, !.limit = Cardinality(event_ids)]]
    IN IF impl = "web"
       THEN [paged EXCEPT !.query =
                _replace_condition(
                    _replace_condition(
                        _replace_condition(@, project_column, "IN", [list |-> project_ids]),
                        timestamp_column, ">=", lower),
                    timestamp_column, "<", upper)]
       ELSE [paged EXCEPT
                !.extensions.project.project = project_ids,
                !.extensions.timeseries.from_date = lower,
                !.extensions.timeseries.to_date = upper]

\* The object the last runner call of the column split is made on: the copy
\* made inside "if result.result["data"]", the caller's request otherwise.
ColSecondObject(data) == IF data # <<>> THEN "copy" ELSE "original"

\* The first phase: the minimal query.
ColFirstPhase ==
    LET minimal_request == ColMinimalRequest(request)
    IN \E out \in RunnerOutcomes(minimal_request) :
        /\ calls' = Append(calls, Call("copy", minimal_request, "col", out))
        /\ request' = AfterCall("copy", out)
        /\ path' = "col"
        /\ IF RunnerRaises(out)
           THEN pc' = "raised" /\ UNCHANGED first_result
           ELSE pc' = "col_phase2" /\ first_result' = Result(out.data)
        /\ UNCHANGED <<env_vars, plan, selector_calls, loop_vars, ret>>

\* The rest of the column split: "if result.result["data"]: ..." and
\* "return runner(request)".
ColSecondPhase ==
    /\ pc = "col_phase2"
    /\ LET obj == ColSecondObject(first_result.data)
           second == IF first_result.data # <<>>
                     THEN ColSecondRequest(request, Impl, first_result.data)
                     ELSE request
       IN \E out \in RunnerOutcomes(second) :
            /\ calls' = Append(calls, Call(obj, second, "col", out))
            /\ request' = AfterCall(obj, out)
            /\ IF RunnerRaises(out)
               THEN pc' = "raised" /\ UNCHANGED ret
               ELSE pc' = "returned" /\ ret' = Result(out.data)
    /\ UNCHANGED <<env_vars, plan, selector_calls, path, loop_vars, first_result>>

\* ColumnSplitQueryStrategy.execute, up to the first runner call.
ColSplitExecute ==
    /\ pc = "start" /\ entry = "col"
    /\ IF ColCanExecute(request, config)
       THEN ColFirstPhase
       ELSE /\ ret' = NoneResult
            /\ pc' = "returned"
            /\ UNCHANGED <<env_vars, plan, selector_calls, request, path, loop_vars, first_result, calls>>

\* ------------------------------------------------------------- the dispatcher
\* SimpleQueryPlanExecutionStrategy.execute: return runner(request)
DirectRequest(req) == req

DirectExecute ==
    LET direct == DirectRequest(request)
        obj == IF direct = request THEN "original" ELSE "copy"
    IN \E out \in RunnerOutcomes(direct) :
        /\ calls' = Append(calls, Call(obj, direct, "direct", out))
        /\ request' = AfterCall(obj, out)
        /\ path' = "direct"
        /\ IF RunnerRaises(out)
           THEN pc' = "raised" /\ UNCHANGED ret
           ELSE pc' = "returned" /\ ret' = Result(out.data)
        /\ UNCHANGED <<env_vars, plan, selector_calls, loop_vars, first_result>>

\* SplitQueryPlanExecutionStrategy.execute, up to the first runner call.
PlanExecute ==
    /\ pc = "start" /\ entry = "plan"
    /\ LET p == PlanPath(request, config)
       IN CASE p = "col" -> ColFirstPhase
            [] p = "time" -> EnterTimeSplit
            [] OTHER -> DirectExecute

\* ------------------------------------------------------------ the plan builder
build_plan_PostFirst(storage, post_processors) ==
    [query_processors |-> post_processors \o storage.query_processors,
     execution_strategy |-> "SimpleQueryPlanExecutionStrategy"]

\* SingleTableQueryPlanBuilder.build_plan: the plan it returns.
build_plan(storage, post_processors) ==
    [query_processors |-> storage.query_processors \o post_processors,
     execution_strategy |-> "SimpleQueryPlanExecutionStrategy"]

\* SingleTableQueryPlanBuilder.build_plan: the data source of the storage is
\* set on the query of the caller's request, and the plan is returned.
BuildPlan ==
    /\ pc = "start" /\ entry = "single"
    /\ request' = [request EXCEPT !.query.data_source = builder.storage.data_source]
    /\ plan' = build_plan(builder.storage, builder.post_processors)
    /\ pc' = "built"
    /\ UNCHANGED <<env_vars, selector_calls, path, loop_vars, first_result, calls, ret>>

SelectedDelegate_NoPost(storage, post_processors) ==
    [storage |-> storage, post_processors |-> <<>>, selectable |-> {}]

\* SingleTableQueryPlanBuilder(storage, self.__post_processor): the builder
\* SelectedTableQueryPlanBuilder.build_plan delegates to.
SelectedDelegate(storage, post_processors) ==
    [storage |-> storage, post_processors |-> post_processors, selectable |-> {}]

\* What one select_storage call may come to: one of the storages of the
\* dataset, or an error.
SelectorOutcomes ==
    {[raised |-> FALSE, storage |-> st] : st \in builder.selectable}
        \cup {[raised |-> TRUE, storage |-> NoStorage]}

\* SelectedTableQueryPlanBuilder.build_plan: select_storage(query, settings),
\* then build_plan of a single-table builder for the storage selected.  The
\* call is in no try: an error of the selector leaves build_plan.
SelectedBuildPlan ==
    /\ pc = "start" /\ entry = "selected"
    /\ \E out \in SelectorOutcomes :
        /\ selector_calls' = Append(selector_calls,
                [query |-> request.query, settings |-> request.settings,
                 raised |-> out.raised, storage |-> out.storage])
        /\ IF out.raised
           THEN /\ pc' = "selector_failed"
                /\ UNCHANGED <<request, plan>>
           ELSE LET single == SelectedDelegate(out.storage, builder.post_processors)
                IN /\ request' = [request EXCEPT
                                    !.query.data_source = single.storage.data_source]
                   /\ plan' = build_plan(single.storage, single.post_processors)
                   /\ pc' = "built"
    /\ UNCHANGED <<env_vars, path, loop_vars, first_result, calls, ret>>

\* plan.execution_strategy.execute(request, runner) for the plan of a
\* single-table builder: SimpleQueryPlanExecutionStrategy.execute.
SimpleExecute ==
    /\ pc = "built"
    /\ plan.execution_strategy = "SimpleQueryPlanExecutionStrategy"
    /\ DirectExecute

\* --------------------------------------------- the two implementations
\* A request that says the same in its extensions and in its conditions: the
\* timeseries extension's bounds are the literals of its timestamp ">=" and
\* "<" conditions, the project extension is the list of its project IN
\* condition.
ExtensionsAgree(req) ==
    /\ HasCondition(req.query, timestamp_column, ">=")
    /\ HasCondition(req.query, timestamp_column, "<")
    /\ HasCondition(req.query, project_column, "IN")
    /\ FirstLiteral(req.query, timestamp_column, ">=") = req.extensions.timeseries.from_date
    /\ FirstLiteral(req.query, timestamp_column, "<") = req.extensions.timeseries.to_date
    /\ FirstLiteral(req.query, project_column, "IN").list = req.extensions.project.project

\* The runs that are compared: SplitQueryPlanExecutionStrategy with a column
\* split spec, over a faithful store, on such a request.
PairInit ==
    /\ Init
    /\ entry = "plan" /\ runner = "faithful" /\ config.split_spec
    /\ ExtensionsAgree(request)

\* The first run is over: keep what it did and hand the same request, store
\* and configuration to the strategies of web/split.py.
SwitchToWeb ==
    /\ entry = "plan" /\ pc \in {"returned", "raised"} /\ ~reference.done
    /\ reference' = [done |-> TRUE, path |-> path, pc |-> pc, calls |-> calls, ret |-> ret]
    /\ entry' = "web"
    /\ request' = snapshot
    /\ pc' = "start"
    /\ path' = "none"
    /\ limit' = 0 /\ remaining_offset' = 0 /\ from_date' = 0 /\ to_date' = 0
    /\ split_start' = 0 /\ split_end' = 0 /\ split_step' = 0 /\ total_results' = 0
    /\ overall_result' = NoneResult /\ first_result' = NoneResult
    /\ calls' = <<>> /\ ret' = NoneResult
    /\ UNCHANGED <<config, store, runner, snapshot, builder, plan, selector_calls,
                   subscription_vars>>

\* The dispatcher over the strategies of web/split.py: the column split if it
\* can execute, else the time split if it can, else the runner on the request.
WebDispatch ==
    /\ pc = "start" /\ entry = "web"
    /\ IF ColCanExecute(request, config) THEN ColFirstPhase
       ELSE IF TimeCanExecute(request, config) THEN EnterTimeSplit
       ELSE DirectExecute

\* A strategy that returned None has the dispatcher go on to the next one:
\* after the time split, the runner on the request.
WebFallback ==
    /\ pc = "returned" /\ entry = "web" /\ path = "time" /\ ret.isNone
    /\ DirectExecute

PairNext ==
    \/ PlanExecute
    \/ TimeSplitProbe
    \/ TimeSplitReturn
    \/ ColSecondPhase
    \/ SwitchToWeb
    \/ WebDispatch
    \/ WebFallback

PairSpec == PairInit /\ [][PairNext]_vars

\* ------------------------------------------------------- subscriptions.run
\* What subscriptions.run leaves alone: the state of the split strategies.
split_vars == <<config, store, runner, entry, request, snapshot, pc, path, loop_vars,
                first_result, calls, ret, builder, plan, selector_calls, reference>>

Done(f) == f \in {"finished", "failed"}

\* wait(futures.keys(), return_when=FIRST_EXCEPTION) returns when a future has
\* finished by raising, or when all have finished.
FirstException(fs) ==
    \/ \E i \in DOMAIN fs : fs[i] = "failed"
    \/ \A i \in DOMAIN fs : Done(fs[i])

\* A run that never asks for the shutdown itself.
NeedsEarlyShutdown_Never(is_set) == FALSE

\* if not shutdown_requested.is_set():
NeedsEarlyShutdown(is_set) == ~is_set

\* The first consumer, in the order of the futures dict, that is still v in f.
FirstWith(f, v) == CHOOSE i \in DOMAIN f : f[i] = v /\ \A j \in 1 .. i - 1 : f[j] # v

\* The dict comprehension: consumer.run() for one consumer; execute() starts
\* its thread and returns its future.
CreateConsumer ==
    /\ run_pc = "create"
    /\ LET i == FirstWith(futures, "none")
       IN /\ futures' = [futures EXCEPT ![i] = "starting"]
          /\ run_pc' = (IF i = Len(Consumers) THEN "install_sigint" ELSE "create")
    /\ UNCHANGED <<split_vars, shutdown_requested, handlers, signals, outcomes>>

\* signal.signal(signal.SIGINT, handler); signal.signal(signal.SIGTERM, handler)
InstallHandler ==
    /\ run_pc \in {"install_sigint", "install_sigterm"}
    /\ handlers' = handlers \cup {IF run_pc = "install_sigint" THEN "SIGINT" ELSE "SIGTERM"}
    /\ run_pc' = (IF run_pc = "install_sigint" THEN "install_sigterm" ELSE "wait")
    /\ UNCHANGED <<split_vars, shutdown_requested, futures, signals, outcomes>>

\* done, running = wait(futures.keys(), return_when=FIRST_EXCEPTION)
WaitReturns ==
    /\ run_pc = "wait"
    /\ FirstException(futures)
    /\ run_pc' = "check"
    /\ UNCHANGED <<split_vars, shutdown_requested, futures, handlers, signals, outcomes>>

\* if not shutdown_requested.is_set(): the test
CheckShutdown ==
    /\ run_pc = "check"
    /\ run_pc' = (IF NeedsEarlyShutdown(shutdown_requested) THEN "set" ELSE "collect")
    /\ UNCHANGED <<split_vars, shutdown_requested, futures, handlers, signals, outcomes>>

\* shutdown_requested.set() by run
RequestShutdown ==
    /\ run_pc = "set"
    /\ shutdown_requested' = TRUE
    /\ run_pc' = "collect"
    /\ UNCHANGED <<split_vars, futures, handlers, signals, outcomes>>

\* One iteration of "for future, consumer in futures.items()": future.result()
\* blocks until the future is done, and gives its result or raises its error,
\* which is logged.
CollectResult ==
    /\ run_pc = "collect"
    /\ LET i == FirstWith(outcomes, "none")
       IN /\ Done(futures[i])
          /\ outcomes' = [outcomes EXCEPT
                            ![i] = IF futures[i] = "finished" THEN "result" ELSE "error"]
          /\ run_pc' = (IF i = Len(Consumers) THEN "returned" ELSE "collect")
    /\ UNCHANGED <<split_vars, shutdown_requested, futures, handlers, signals>>

\* handler(signal, frame): shutdown_requested.set(), for a signal whose handler
\* is installed, at any point of run after that.
Handler ==
    /\ run_pc # "returned" /\ signals < MaxSignals
    /\ \E sig \in handlers :
        /\ shutdown_requested' = TRUE
        /\ signals' = signals + 1
    /\ UNCHANGED <<split_vars, futures, run_pc, handlers, outcomes>>

\* __run of a consumer: logger.debug(...), then shutdown_requested.wait()
ConsumerStarts(i) ==
    /\ futures[i] = "starting"
    /\ futures' = [futures EXCEPT ![i] = "waiting"]
    /\ UNCHANGED <<split_vars, shutdown_requested, run_pc, handlers, signals, outcomes>>

\* A consumer whose thread ends with an error before it waits.
ConsumerFails(i) ==
    /\ futures[i] = "starting"
    /\ futures' = [futures EXCEPT ![i] = "failed"]
    /\ UNCHANGED <<split_vars, shutdown_requested, run_pc, handlers, signals, outcomes>>

\* shutdown_requested.wait() returns once the event is set, and __run with it.
ConsumerFinishes(i) ==
    /\ futures[i] = "waiting" /\ shutdown_requested
    /\ futures' = [futures EXCEPT ![i] = "finished"]
    /\ UNCHANGED <<split_vars, shutdown_requested, run_pc, handlers, signals, outcomes>>

RunStep ==
    \/ CreateConsumer
    \/ InstallHandler
    \/ WaitReturns
    \/ CheckShutdown
    \/ RequestShutdown
    \/ CollectResult

SubscriptionsInit ==
    SetupBuilder("subscriptions",
                 MkRequest(<<id_column>>, <<>>, <<>>, <<>>, <<>>, NoLimit, 0, 0, 0,
                           AllProjects),
                 MkConfig(0, 1, 1, FALSE), {}, "faithful", NoBuilder)

SubscriptionsNext ==
    \/ RunStep
    \/ Handler
    \/ \E i \in DOMAIN Consumers : ConsumerStarts(i)
    \/ \E i \in DOMAIN Consumers : ConsumerFails(i)
    \/ \E i \in DOMAIN Consumers : ConsumerFinishes(i)

\* The main thread and every consumer thread go on when they can; signals and
\* failures need not happen.
SubscriptionsSpec ==
    /\ SubscriptionsInit /\ [][SubscriptionsNext]_vars
    /\ WF_vars(RunStep)
    /\ \A i \in DOMAIN Consumers :
        WF_vars(ConsumerStarts(i)) /\ WF_vars(ConsumerFinishes(i))

Next ==
    \/ BuildPlan
    \/ SelectedBuildPlan
    \/ SimpleExecute
    \/ TimeSplitExecute
    \/ TimeSplitProbe
    \/ TimeSplitReturn
    \/ ColSplitExecute
    \/ ColSecondPhase
    \/ PlanExecute

Spec == Init /\ [][Next]_vars

\* Every call is synchronous: a call that can take its next step takes it.
FairSpec == Spec /\ WF_vars(Next)


\* ================================================================== claims
Terminal == pc \in {"returned", "raised"}

\* The runner calls so far, by the code that made them.
CallPaths == {calls[i].path : i \in DOMAIN calls}

\* ---------------------------------------------------------------------- C1
\* C1: over a faithful store, a time split of a request with limit L > 0,
\* offset O < 1000, timestamp descending and from_date < to_date returns rows
\* O .. O+L-1 of the unsplit query over the same range.
C1_TimeSplitRows ==
    (/\ pc = "returned" /\ path = "time" /\ runner = "faithful"
     /\ from_date < to_date)
        => /\ ~ret.isNone
           /\ ret.data =
                SubSeq(Sorted(Matching(snapshot, store), <<"-timestamp">>),
                       snapshot.query.offset + 1,
                       Min2(Cardinality(Matching(snapshot, store)),
                            snapshot.query.offset + snapshot.query.limit))

\* A time split that needed a second probe, skipped rows and returned some.
C1_Witness ==
    /\ pc = "returned" /\ path = "time" /\ runner = "faithful"
    /\ Len(calls) >= 2 /\ snapshot.query.offset > 0 /\ Len(ret.data) > 0

C3_DirectWhenNothingApplies ==
    LET q == snapshot.query
        common == config.use_split > 0 /\ q.limit \notin {NoLimit, 0} /\ q.groupby = <<>>
        minimal == [q EXCEPT !.selected_columns =
                        <<"event_id", "project_id", "timestamp">>]
        col == /\ config.split_spec
               /\ q.selected_columns # <<>>
               /\ q.aggregations = <<>>
               /\ Cardinality(get_all_referenced_columns(q))
                    > Cardinality(get_all_referenced_columns(minimal))
        time == /\ q.orderby # <<>>
                /\ q.orderby[1] = "-timestamp"
                /\ q.offset < 1000
    IN (entry = "plan" /\ Terminal /\ ~(common /\ (col \/ time)))
        => /\ Len(calls) = 1
           /\ calls[1].obj = "original"
           /\ calls[1].request = snapshot
           /\ calls[1].raised = (pc = "raised")
           /\ pc = "returned" => ret = Result(calls[1].data)

\* A grouped query with the flag on and a limit: run directly, rows returned.
C3_Witness ==
    /\ entry = "plan" /\ pc = "returned" /\ path = "direct"
    /\ config.use_split = 1 /\ snapshot.query.limit = 1
    /\ snapshot.query.groupby # <<>>
    /\ Len(calls) = 1 /\ Len(ret.data) > 0

\* ---------------------------------------------------------------------- C4
\* What holds of a time split over from_date < to_date with split_step > 0 in
\* every state: at most to_date - from_date probes were made, and when it
\* returned after empty probes only, the last probe started at from_date.
C4_BoundedProbes ==
    LET probes == {i \in DOMAIN calls : calls[i].path = "time"}
        last == calls[Len(calls)].request
        last_start == IF entry = "plan"
                      THEN last.extensions.timeseries.from_date.iso
                      ELSE FirstLiteral(last.query, "timestamp", ">=").iso
    IN (path = "time" /\ from_date < to_date /\ config.split_step > 0)
        => /\ Cardinality(probes) <= to_date - from_date
           /\ (pc = "returned" /\ \A i \in probes : calls[i].data = <<>>)
                => (calls # <<>> /\ last_start = from_date)

\* What every iteration that does not end the call does: it fills the limit,
\* or it moves split_end down, and never below from_date.
C4_LoopVariant ==
    (pc = "time_loop" /\ pc' = "time_loop")
        => \/ total_results' >= limit
           \/ split_end' < split_end /\ split_end' >= from_date

\* C4: for from_date < to_date and split_step > 0 the time split returns after
\* finitely many iterations whatever the runner answers (at most to_date -
\* from_date of them, each moving split_end down until the limit is filled),
\* and when every probe was empty the last probe started at from_date.
C4_TimeSplitTerminates == []C4_BoundedProbes /\ [][C4_LoopVariant]_vars

\* Three empty probes in a row, then the return.
C4_Witness ==
    /\ path = "time" /\ pc = "returned" /\ runner = "any"
    /\ Len(calls) = 3
    /\ \A i \in DOMAIN calls : calls[i].data = <<>>

\* ---------------------------------------------------------------------- C5
\* C5: a split strategy whose precondition holds returns a result, not None,
\* after at least one runner call.
C5_ApplicableReturnsResult ==
    (/\ pc = "returned"
     /\ \/ entry = "time" /\ TimeCanExecute(snapshot, config)
        \/ entry = "col" /\ ColCanExecute(snapshot, config))
        => (~ret.isNone /\ Len(calls) >= 1)

\* ---------------------------------------------------------------------- C6
\* C6: a split strategy whose precondition fails returns None, calls the
\* runner zero times and leaves the request as it was.
C6_DeclinesWithoutEffect ==
    LET q == snapshot.query
        splittable == config.use_split > 0 /\ q.limit \notin {NoLimit, 0} /\ q.groupby = <<>>
        has(op) == \E i \in DOMAIN q.conditions :
                        q.conditions[i][1] = "timestamp" /\ q.conditions[i][2] = op
        time == /\ splittable /\ has(">=") /\ has("<")
                /\ q.orderby # <<>> /\ q.orderby[1] = "-timestamp"
                /\ q.offset < 1000
        minimal == [q EXCEPT !.selected_columns =
                        <<"event_id", "project_id", "timestamp">>]
        col == /\ splittable
               /\ q.selected_columns # <<>>
               /\ q.aggregations = <<>>
               /\ Cardinality(get_all_referenced_columns(q))
                    > Cardinality(get_all_referenced_columns(minimal))
    IN (/\ pc # "start"
        /\ \/ entry = "time" /\ ~time
           \/ entry = "col" /\ ~col)
        => /\ pc = "returned" /\ ret.isNone
           /\ calls = <<>>
           /\ request = snapshot

\* A column split declined for a query with limit 0 and nothing else in the way.
C6_Witness ==
    /\ entry = "col" /\ pc = "returned" /\ ret.isNone /\ calls = <<>>
    /\ config.use_split = 1 /\ snapshot.query.limit = 0
    /\ snapshot.query.groupby = <<>> /\ snapshot.query.aggregations = <<>>
    /\ Len(snapshot.query.selected_columns) = 2

\* ---------------------------------------------------------------------- C7
\* C7: when the first phase of the column split returns no rows, that empty
\* result is returned and the only runner call is the first phase's, on a copy.
C7_EmptyFirstPhaseReturned ==
    (path = "col" /\ pc = "returned" /\ first_result.data = <<>>)
        => /\ Len(calls) = 1
           /\ calls[1].obj = "copy"
           /\ ret = first_result

\* ---------------------------------------------------------------------- C8
\* C8: over a faithful store, when the first phase found rows, the rows of the
\* second phase are, on (id, project, timestamp), the rows of the first phase.
C8_ColumnSplitRowIdentity ==
    LET key(r) == <<r.event_id, r.project_id, r.timestamp>>
    IN (/\ path = "col" /\ pc = "returned" /\ runner = "faithful"
        /\ first_result.data # <<>>)
        => /\ {key(ret.data[i]) : i \in DOMAIN ret.data}
                = {key(first_result.data[i]) : i \in DOMAIN first_result.data}
           /\ Len(ret.data) = Len(first_result.data)

\* A column split whose first phase found two rows of different timestamps
\* behind an offset.
C8_Witness ==
    /\ path = "col" /\ pc = "returned" /\ runner = "faithful"
    /\ Len(first_result.data) = 2 /\ snapshot.query.offset = 1
    /\ first_result.data[1].timestamp # first_result.data[2].timestamp

\* ---------------------------------------------------------------------- C9
\* C9: the dispatcher tries the column split first, the time split only when
\* the column split does not apply, the direct call only when neither does,
\* and exactly one of the three issues runner calls.
C9_OnePathPerRequest ==
    LET common == PlanCommonConditions(snapshot, config)
        col == common /\ PlanColApplies(snapshot, config)
        time == common /\ ~col /\ PlanTimeApplies(snapshot)
    IN (entry = "plan" /\ Terminal)
        => /\ Cardinality(CallPaths) = 1
           /\ col => CallPaths = {"col"}
           /\ time => CallPaths = {"time"}
           /\ (~col /\ ~time) => CallPaths = {"direct"}

\* --------------------------------------------------------------------- C10
\* C10: a runner call that fails is the last runner call, execute ends with
\* that error and returns nothing.
C10_RunnerFailureAborts ==
    /\ \A i \in DOMAIN calls : calls[i].raised => (i = Len(calls) /\ pc = "raised")
    /\ pc = "raised" => (calls # <<>> /\ calls[Len(calls)].raised /\ ret = NoneResult)

\* The second probe of a time split failed after the first returned a row.
C10_Witness ==
    /\ pc = "raised" /\ path = "time" /\ Len(calls) = 2
    /\ calls[1].data # <<>> /\ calls[2].raised

\* --------------------------------------------------------------------- C11
\* What one iteration of the time-split loop does to the accumulator and the
\* remaining offset, the rows of the iteration being those of the call it added.
C11_TrimStep ==
    (pc = "time_loop" /\ pc' = "time_loop" /\ Len(calls') = Len(calls) + 1)
        => LET rows == calls'[Len(calls')].data
               before == IF overall_result.isNone
                         THEN Len(rows) ELSE Len(overall_result.data) + Len(rows)
               after == Len(overall_result'.data)
               smaller == IF remaining_offset < before THEN remaining_offset ELSE before
           IN /\ after <= before
              /\ before - after = smaller
              /\ remaining_offset' <= remaining_offset
              /\ remaining_offset' >= 0
              /\ remaining_offset' <= snapshot.query.offset

\* The remaining offset of a time split in every state.
C11_OffsetInRange ==
    path = "time" => (remaining_offset >= 0 /\ remaining_offset <= snapshot.query.offset)

\* C11: in every iteration of the time-split loop the accumulator is no longer
\* after trimming than before, min(remaining_offset, accumulator length) rows
\* are trimmed, and remaining_offset stays in 0 .. original offset and never
\* increases.
C11_OffsetTrimming == []C11_OffsetInRange /\ [][C11_TrimStep]_vars

\* An offset of 2 taken in two iterations, one row each, rows left after it.
C11_Witness ==
    /\ path = "time" /\ snapshot.query.offset = 2 /\ Len(calls) >= 2
    /\ Len(calls[1].data) = 1 /\ Len(calls[2].data) >= 2
    /\ remaining_offset = 0 /\ Len(overall_result.data) > 0

\* --------------------------------------------------------------------- C12
\* The window a sub-request asks for, read where the implementation wrote it:
\* the rewritten conditions (web/split.py), the timeseries extension
\* (plans/split.py).
ProbeStart(call) ==
    IF entry = "plan"
    THEN call.request.extensions.timeseries.from_date.iso
    ELSE FirstLiteral(call.request.query, "timestamp", ">=").iso

ProbeEnd(call) ==
    IF entry = "plan"
    THEN call.request.extensions.timeseries.to_date.iso
    ELSE FirstLiteral(call.request.query, "timestamp", "<").iso

\* C12: when every probe of a time split came back without rows (and there was
\* one), the time split returns an empty row sequence, not None and not an
\* error, and every probe asked for a window [split_start, split_end) with
\* from_date <= split_start < split_end <= to_date.
C12_AllEmptyRange ==
    (/\ path = "time" /\ calls # <<>>
     /\ \A i \in DOMAIN calls : ~calls[i].raised /\ calls[i].data = <<>>)
        => /\ pc # "raised"
           /\ pc = "returned" => ret = [isNone |-> FALSE, data |-> <<>>]
           /\ \A i \in DOMAIN calls :
                /\ from_date <= ProbeStart(calls[i])
                /\ ProbeStart(calls[i]) < ProbeEnd(calls[i])
                /\ ProbeEnd(calls[i]) <= to_date

\* A store with nothing in a range that starts after the epoch: two empty
\* probes, the second clamped to from_date, and an empty result.
C12_Witness ==
    /\ path = "time" /\ pc = "returned" /\ runner = "faithful"
    /\ from_date = 1 /\ Len(calls) = 2
    /\ \A i \in DOMAIN calls : calls[i].data = <<>>
    /\ ProbeStart(calls[2]) = from_date
    /\ ret.data = <<>> /\ ~ret.isNone

\* --------------------------------------------------------------------- C13
\* C13: with offset 0, when the first probe of a time split (the window of
\* split_step seconds that ends at to_date) returns at least limit rows, that
\* probe is the only runner call, its rows are the rows returned, and the
\* window is neither grown nor slid.
C13_EarlyStop ==
    LET first_start == IF to_date - config.split_step > from_date
                       THEN to_date - config.split_step ELSE from_date
    IN (/\ path = "time" /\ snapshot.query.offset = 0
        /\ calls # <<>> /\ ~calls[1].raised
        /\ Len(calls[1].data) >= snapshot.query.limit)
        => /\ Len(calls) = 1
           /\ ProbeStart(calls[1]) = first_start /\ ProbeEnd(calls[1]) = to_date
           /\ split_step = config.split_step
           /\ split_end = to_date /\ split_start = first_start
           /\ pc \in {"time_loop", "returned"}
           /\ pc = "returned" => ret = [isNone |-> FALSE, data |-> calls[1].data]

\* The newest window of a longer range held the two rows asked for.
C13_Witness ==
    /\ path = "time" /\ pc = "returned" /\ runner = "faithful"
    /\ snapshot.query.offset = 0 /\ snapshot.query.limit = 2
    /\ to_date - from_date > config.split_step
    /\ Len(calls) = 1 /\ Len(ret.data) = 2

\* --------------------------------------------------------------------- C14
\* C14: TimeSplitQueryStrategy.execute goes on to its loop exactly when the
\* query is splittable, its first order-by entry is "-timestamp", its
\* conditions hold a (timestamp, ">=") and a (timestamp, "<") comparison and
\* its offset is below 1000; with an offset of 1000 or more, an ascending
\* order or a missing bound it declines.
C14_TimeSplitPrecondition ==
    LET q == snapshot.query
        ops == {q.conditions[i][2] :
                    i \in {j \in DOMAIN q.conditions : q.conditions[j][1] = "timestamp"}}
        splittable == config.use_split > 0 /\ q.limit # NoLimit /\ q.limit > 0
                        /\ Len(q.groupby) = 0
        descending == Len(q.orderby) > 0 /\ q.orderby[1] = "-timestamp"
        applies == /\ splittable /\ descending
                   /\ ">=" \in ops /\ "<" \in ops
                   /\ q.offset < 1000
        runs_loop == path = "time" /\ pc \in {"time_loop", "returned", "raised"}
        declines == path = "none" /\ pc = "returned" /\ ret.isNone /\ calls = <<>>
    IN (entry = "time" /\ pc # "start")
        => /\ runs_loop <=> applies
           /\ declines <=> ~applies
           /\ q.offset >= 1000 => declines
           /\ (Len(q.orderby) > 0 /\ q.orderby[1] = "timestamp") => declines
           /\ (">=" \notin ops \/ "<" \notin ops) => declines

\* Declined for the offset alone: a splittable query, descending, both bounds,
\* offset 1000.
C14_Witness ==
    /\ entry = "time" /\ pc = "returned" /\ path = "none" /\ ret.isNone
    /\ config.use_split = 1 /\ snapshot.query.limit = 1
    /\ snapshot.query.groupby = <<>>
    /\ snapshot.query.orderby = <<"-timestamp">>
    /\ Len(snapshot.query.conditions) = 3
    /\ snapshot.query.offset = 1000

\* --------------------------------------------------------------------- C15
\* C15: a query is splittable, for _is_query_splittable and for the common
\* conditions of the dispatcher alike, exactly when the use_split flag is
\* above 0, the limit is present and above 0 and there is no group by; with a
\* group by, with the limit absent or 0, or with the flag at 0, neither the
\* time split nor the column split issues a query.
C15_Splittable ==
    LET q == snapshot.query
        flag_on == config.use_split > 0
        has_limit == q.limit # NoLimit /\ q.limit > 0
        grouped == Len(q.groupby) > 0
        expected == flag_on /\ has_limit /\ ~grouped
        split == path \in {"time", "col"}
    IN /\ _is_query_splittable(q, config.use_split) <=> expected
       /\ PlanCommonConditions(snapshot, config) <=> expected
       /\ split => expected
       /\ grouped => ~split
       /\ (q.limit = NoLimit \/ q.limit = 0) => ~split
       /\ config.use_split = 0 => ~split

\* The flag at 2 and a limit, and the time split declined for the group by.
C15_Witness ==
    /\ entry = "time" /\ pc = "returned" /\ path = "none" /\ ret.isNone
    /\ config.use_split = 2 /\ snapshot.query.limit = 1
    /\ snapshot.query.groupby # <<>>
    /\ snapshot.query.orderby = <<"-timestamp">>
    /\ Len(snapshot.query.conditions) = 3 /\ snapshot.query.offset = 0

\* --------------------------------------------------------------------- C16
\* C16: the column split (ColumnSplitQueryStrategy, and the dispatcher built
\* with a ColumnSplitSpec) runs exactly when the query is splittable, selects
\* at least one column, has no aggregations and references more columns than
\* it does with the selected columns replaced by (event_id, project_id,
\* timestamp); with equal counts it does not run.
C16_ColumnSplitPrecondition ==
    LET q == snapshot.query
        refs(sel) == {sel[i] : i \in DOMAIN sel}
                        \cup {q.conditions[i][1] : i \in DOMAIN q.conditions}
                        \cup {q.groupby[i] : i \in DOMAIN q.groupby}
                        \cup {q.aggregations[i] : i \in DOMAIN q.aggregations}
                        \cup {OrderColumn(q.orderby[i]) : i \in DOMAIN q.orderby}
        total == Cardinality(refs(q.selected_columns))
        minimal == Cardinality(refs(<<"event_id", "project_id", "timestamp">>))
        splittable == config.use_split > 0 /\ q.limit # NoLimit /\ q.limit > 0
                        /\ Len(q.groupby) = 0
        applies == /\ splittable
                   /\ Len(q.selected_columns) > 0
                   /\ Len(q.aggregations) = 0
                   /\ total > minimal
    IN (/\ pc # "start"
        /\ entry = "col" \/ (entry = "plan" /\ config.split_spec))
        => /\ path = "col" <=> applies
           /\ total = minimal => path # "col"
           /\ (entry = "col" /\ ~applies)
                => (pc = "returned" /\ ret.isNone /\ calls = <<>>)

\* Declined for the counts alone: one selected column, and with the project
\* and the two time conditions as many referenced columns as the minimal query.
C16_Witness ==
    /\ entry = "col" /\ pc = "returned" /\ path = "none" /\ ret.isNone
    /\ config.use_split = 1 /\ snapshot.query.limit = 1
    /\ snapshot.query.groupby = <<>> /\ snapshot.query.aggregations = <<>>
    /\ snapshot.query.selected_columns = <<"event_id">>
    /\ Len(snapshot.query.conditions) = 3
    /\ snapshot.query.orderby = <<>>

\* --------------------------------------------------------------------- C17
\* The literals of a request's conditions on (field, operand).
Literals(req, field, operand) ==
    {req.query.conditions[i][3] :
        i \in {j \in DOMAIN req.query.conditions :
                    /\ req.query.conditions[j][1] = field
                    /\ req.query.conditions[j][2] = operand}}

\* C17: in every sub-request the time split or the column split hands to the
\* runner, the from_date and to_date of the timeseries extension are the
\* bounds its (timestamp, ">=") and (timestamp, "<") conditions put on the
\* timestamp (the tightest one where there are several), and the projects of
\* the project extension are those of its project IN conditions.
C17_ExtensionsConsistent ==
    \A i \in DOMAIN calls :
        calls[i].path \in {"time", "col"} =>
            LET r == calls[i].request
                lowers == Literals(r, "timestamp", ">=")
                uppers == Literals(r, "timestamp", "<")
                projects == Literals(r, "project_id", "IN")
            IN /\ lowers # {} =>
                    /\ r.extensions.timeseries.from_date \in lowers
                    /\ \A l \in lowers : l.iso <= r.extensions.timeseries.from_date.iso
               /\ uppers # {} =>
                    /\ r.extensions.timeseries.to_date \in uppers
                    /\ \A u \in uppers : u.iso >= r.extensions.timeseries.to_date.iso
               /\ projects # {} =>
                    \A p \in AllProjects :
                        p \in r.extensions.project.project
                            <=> \A c \in projects : p \in c.list

\* --------------------------------------------------------------------- C18
\* Whether the request carries its time range where the column split rewrites
\* it: both timestamp conditions for ColumnSplitQueryStrategy, the timeseries
\* extension (every request has one) for the dispatcher.
RangeIsRewritable(req) ==
    entry = "col" => (/\ Literals(req, "timestamp", ">=") # {}
                      /\ Literals(req, "timestamp", "<") # {})

AllowedProjects(req) ==
    {p \in AllProjects :
        /\ p \in req.extensions.project.project
        /\ \A i \in DOMAIN req.query.conditions :
            LET c == req.query.conditions[i]
            IN c[1] = "project_id" =>
                CASE c[2] = "IN" -> p \in c[3].list
                  [] c[2] = "=" -> p = c[3]
                  [] OTHER -> TRUE}

\* C19: when the first phase of the column split found rows, the second-phase
\* request lets through exactly the projects of those rows, whether the
\* original request filtered the project by an IN condition, by an equality
\* condition or by the project extension alone.
C19_SecondPhaseProjects ==
    (path = "col" /\ Len(calls) >= 2 /\ first_result.data # <<>>)
        => AllowedProjects(calls[2].request)
            = {first_result.data[i].project_id : i \in DOMAIN first_result.data}

\* --------------------------------------------------------------------- C20
\* C20: the plan SingleTableQueryPlanBuilder.build_plan returns lists the
\* query processors of the storage, in the storage's order, and after them the
\* post-processors of the builder, in the builder's order, and nothing else;
\* its execution strategy calls the runner once, with the request it is given,
\* and returns what that call returned.
C20_PlanProcessorOrder ==
    LET sp == builder.storage.query_processors
        pp == builder.post_processors
        listed == plan.query_processors
        given == [snapshot EXCEPT !.query.data_source = builder.storage.data_source]
    IN (entry = "single" /\ pc # "start")
        => /\ Len(listed) = Len(sp) + Len(pp)
           /\ \A i \in 1 .. Len(sp) : listed[i] = sp[i]
           /\ \A j \in 1 .. Len(pp) : listed[Len(sp) + j] = pp[j]
           /\ pc = "built" => calls = <<>>
           /\ pc \in {"returned", "raised"}
                => /\ Len(calls) = 1
                   /\ calls[1].obj = "original"
                   /\ calls[1].request = given
                   /\ calls[1].raised = (pc = "raised")
                   /\ pc = "returned" => ret = [isNone |-> FALSE, data |-> calls[1].data]

\* Two processors of the storage and two different post-processors, and the
\* plan's strategy returned the rows of its one call.
C20_Witness ==
    /\ entry = "single" /\ pc = "returned"
    /\ builder.storage.query_processors = <<"BasicFunctionsProcessor", "PrewhereProcessor">>
    /\ builder.post_processors = <<"PrewhereProcessor", "BasicFunctionsProcessor">>
    /\ Len(plan.query_processors) = 4
    /\ Len(calls) = 1 /\ Len(ret.data) > 0

\* --------------------------------------------------------------------- C21
\* C21: SelectedTableQueryPlanBuilder.build_plan calls the selector once, with
\* the query and the settings of the request; the plan it returns lists the
\* processors of the selected storage and then the builder's post-processors,
\* has the simple execution strategy, and the data source of the selected
\* storage is set on the query, as SingleTableQueryPlanBuilder does for that
\* storage; when the selector fails, build_plan ends there: no second call of
\* the selector, no plan, the request untouched and no query run.
C21_SelectedDelegates ==
    (entry = "selected" /\ pc # "start")
        => /\ Len(selector_calls) = 1
           /\ selector_calls[1].query = snapshot.query
           /\ selector_calls[1].settings = snapshot.settings
           /\ IF selector_calls[1].raised
              THEN /\ pc = "selector_failed"
                   /\ plan = [query_processors |-> <<>>, execution_strategy |-> "none"]
                   /\ request = snapshot
                   /\ calls = <<>>
              ELSE LET st == selector_calls[1].storage
                   IN /\ st \in builder.selectable
                      /\ plan.query_processors
                            = st.query_processors \o builder.post_processors
                      /\ plan.execution_strategy = "SimpleQueryPlanExecutionStrategy"
                      /\ pc = "built" =>
                            request = [snapshot EXCEPT !.query.data_source = st.data_source]
                      /\ pc # "selector_failed"

\* The selector chose the storage with two processors, the builder has two
\* post-processors, and the plan was built.
C21_Witness ==
    /\ entry = "selected" /\ pc = "built"
    /\ Len(selector_calls) = 1
    /\ Len(selector_calls[1].storage.query_processors) = 2
    /\ Len(builder.post_processors) = 2
    /\ Len(plan.query_processors) = 4
    /\ snapshot.settings.turbo
    /\ request.query.data_source = "events_table"

\* --------------------------------------------------------------------- C22
\* A request without what the time split rewrites: the offset, the limit, the
\* conditions on the timestamp and the range of the timeseries extension.
WithoutPaging(req) ==
    [req EXCEPT
        !.query.offset = 0,
        !.query.limit = 0,
        !.query.conditions = SelectSeq(@, LAMBDA c : c[1] # "timestamp"),
        !.extensions.timeseries = [from_date |-> [iso |-> 0], to_date |-> [iso |-> 0]]]

\* What the iteration that issued the last call handed to the runner.
C22_ProbePaging ==
    (pc = "time_loop" /\ Len(calls') = Len(calls) + 1)
        => LET sub == calls'[Len(calls')].request
           IN /\ sub.query.offset = 0
              /\ sub.query.limit = (limit - total_results) + remaining_offset
              /\ total_results = (IF overall_result.isNone
                                  THEN 0 ELSE Len(overall_result.data))
              /\ limit = snapshot.query.limit
              /\ WithoutPaging(sub) = WithoutPaging(snapshot)

\* C22: every sub-request the time split hands to the runner has offset 0 and
\* the limit (original limit - rows accumulated after trimming) + remaining
\* offset, and but for the offset, the limit and the timestamp bounds it is
\* the original request.
C22_SubQueryPaging == [][C22_ProbePaging]_vars

\* A second probe that asks for less than the first: one row was skipped, one
\* collected.
C22_Witness ==
    /\ path = "time" /\ Len(calls) >= 2
    /\ snapshot.query.offset = 1 /\ snapshot.query.limit = 2
    /\ calls[1].request.query.limit = 3
    /\ calls[2].request.query.limit = 1
    /\ calls[2].request.query.offset = 0

\* --------------------------------------------------------------------- C23
\* What the iteration that issued the last call did to the window, the
\* accumulator being short of the limit after it: ten times the window when
\* the sub-query returned no rows, and only then.
C23_GrowthStep ==
    (/\ pc = "time_loop" /\ pc' = "time_loop" /\ Len(calls') = Len(calls) + 1
     /\ total_results' < limit)
        => LET returned == Len(calls'[Len(calls')].data)
           IN (split_step' = split_step * 10) <=> (returned = 0)

\* C23: after a probe that leaves the accumulator short of the limit, the
\* window is multiplied by 10 exactly when the probe's sub-query returned no
\* rows, in the first iteration as in the later ones, and also when offset
\* trimming consumed every row the probe returned.
C23_GrowthOnlyOnEmptyProbe == [][C23_GrowthStep]_vars

\* --------------------------------------------------------------------- C24
\* What the iteration that issued the last call did to the window, its
\* sub-query having returned r >= 1 rows and the accumulator being short of
\* the limit: the window times ceil((limit - accumulated rows) / r).
C24_DensityStep ==
    (/\ pc = "time_loop" /\ pc' = "time_loop" /\ Len(calls') = Len(calls) + 1
     /\ total_results' < limit
     /\ Len(calls'[Len(calls')].data) >= 1)
        => LET r == Len(calls'[Len(calls')].data)
               remaining == limit - total_results'
               factor == CHOOSE k \in 1 .. remaining :
                            k * r >= remaining /\ (k - 1) * r < remaining
           IN split_step' = split_step * factor

\* C24: after a probe that returned r >= 1 rows and left the accumulator short
\* of the limit, the next window is the current one times
\* ceil((limit - accumulated rows) / r), r counted before offset trimming, in
\* the first iteration as in the later ones.
C24_DensityExtrapolation == [][C24_DensityStep]_vars

\* --------------------------------------------------------------------- C25
\* What the iteration that issued the last call did to the window, the
\* accumulator being short of the limit after it.
C25_SlideStep ==
    (/\ pc = "time_loop" /\ Len(calls') = Len(calls) + 1
     /\ ~calls'[Len(calls')].raised
     /\ total_results' < limit)
        => /\ pc' = "time_loop"
           /\ split_end' = split_start
           /\ IF split_step' > config.timedelta_max
              THEN split_start' = from_date
              ELSE split_start' = (IF split_end' - split_step' > from_date
                                   THEN split_end' - split_step' ELSE from_date)

\* C25: after every probe that leaves the accumulator short of the limit, the
\* next split_end is the previous split_start and the next split_start is
\* max(split_end - next window, from_date); when the subtraction overflows,
\* split_start is from_date and the call goes on without an error.
C25_SlideAndClamp == [][C25_SlideStep]_vars

\* The window grew past what a timedelta holds after two empty probes, and
\* the third probe started at from_date.
C25_Witness ==
    /\ path = "time" /\ pc = "returned" /\ Len(calls) = 3
    /\ split_step > 50
    /\ ProbeStart(calls[3]) = from_date /\ ProbeEnd(calls[3]) = ProbeStart(calls[2])
    /\ \A i \in DOMAIN calls : ~calls[i].raised

\* --------------------------------------------------------------------- C26
\* C26: when the first phase of the column split found rows, the second-phase
\* request is the original request with one condition more, event_id IN the
\* distinct ids of those rows, with offset 0 and as its limit the number of
\* those ids; it selects the original columns, and its other conditions are
\* the original ones, on the same fields and operands.
C26_SecondPhasePaging ==
    (path = "col" /\ Len(calls) >= 2 /\ first_result.data # <<>>)
        => LET q == calls[2].request.query
               o == snapshot.query
               ids == {first_result.data[i].event_id : i \in DOMAIN first_result.data}
               n == Len(o.conditions)
           IN /\ q.selected_columns = o.selected_columns
              /\ q.offset = 0
              /\ q.limit = Cardinality(ids)
              /\ Len(q.conditions) = n + 1
              /\ q.conditions[n + 1] = <<"event_id", "IN", [list |-> ids]>>
              /\ \A i \in 1 .. n :
                    /\ q.conditions[i][1] = o.conditions[i][1]
                    /\ q.conditions[i][2] = o.conditions[i][2]
              /\ q.groupby = o.groupby /\ q.aggregations = o.aggregations
              /\ q.orderby = o.orderby /\ q.data_source = o.data_source
              /\ calls[2].request.settings = snapshot.settings

\* A first phase that answered the same row twice: two rows, one id, and a
\* second phase that asks for one row.
C26_Witness ==
    /\ path = "col" /\ Len(calls) = 2 /\ runner = "any"
    /\ Len(first_result.data) = 2
    /\ first_result.data[1] = first_result.data[2]
    /\ calls[2].request.query.limit = 1
    /\ snapshot.query.offset = 1

\* --------------------------------------------------------------------- C27
\* The rows of the first n runner calls, one after the other.
RECURSIVE SubResults(_)
SubResults(n) ==
    IF n = 0 THEN <<>> ELSE SubResults(n - 1) \o calls[n].data

\* C27: the rows a time split has accumulated, and the rows it returns, are
\* the rows of its sub-queries in the order the sub-queries were issued,
\* without the prefix the offset trimming removed (as many rows as the offset
\* has gone down by); and over a faithful store, whose sub-results are each in
\* timestamp-descending order, so is the result.
C27_ResultOrder ==
    LET all == SubResults(Len(calls))
        trimmed == snapshot.query.offset - remaining_offset
        kept == SubSeq(all, trimmed + 1, Len(all))
    IN (/\ path = "time" /\ pc \in {"time_loop", "returned"} /\ calls # <<>>)
        => /\ overall_result.data = kept
           /\ pc = "returned" => ret.data = kept
           /\ (pc = "returned" /\ runner = "faithful")
                => \A i \in 1 .. Len(ret.data) - 1 :
                        ret.data[i].timestamp.iso >= ret.data[i + 1].timestamp.iso

\* Three probes over a faithful store, the first empty, the others with rows of
\* different timestamps, one row skipped for the offset.
C27_Witness ==
    /\ path = "time" /\ pc = "returned" /\ runner = "faithful"
    /\ Len(calls) = 3 /\ calls[1].data = <<>>
    /\ calls[2].data # <<>> /\ calls[3].data # <<>>
    /\ snapshot.query.offset = 1 /\ remaining_offset = 0
    /\ Len(ret.data) = 2
    /\ ret.data[1].timestamp.iso > ret.data[2].timestamp.iso

\* --------------------------------------------------------------------- C28
\* Whether a request carries the mark a mutating runner leaves on what it is
\* handed.
Mutated(req) ==
    \E i \in DOMAIN req.query.conditions : req.query.conditions[i][1] = "deleted"

\* C28: every runner call of a split (time split, column split, or either by
\* way of the dispatcher) is made on a copy, never on the caller's Request;
\* the caller's Request is handed to the runner once at most; and no
\* sub-request carries what a runner did to an earlier one.
C28_IndependentCopies ==
    LET split == {i \in DOMAIN calls : calls[i].path \in {"time", "col"}}
    IN /\ \A i \in split : calls[i].obj = "copy"
       /\ Cardinality({i \in split : calls[i].obj = "original"}) <= 1
       /\ \A i \in split : ~Mutated(calls[i].request)

C30_HonoursSubLimits ==
    \A i \in DOMAIN calls :
        ~calls[i].raised => Len(calls[i].data) <= calls[i].request.query.limit

C30_NeverOverDelivers ==
    (path = "time" /\ C30_HonoursSubLimits)
        => /\ Len(overall_result.data) <= snapshot.query.limit
           /\ total_results <= snapshot.query.limit
           /\ pc = "returned" => Len(ret.data) <= snapshot.query.limit

\* A runner that is free in what it returns kept to the sub-limits: one row
\* skipped by the offset, then the two rows asked for, collected over two
\* probes and returned.
C30_Witness ==
    /\ path = "time" /\ pc = "returned" /\ runner = "any"
    /\ C30_HonoursSubLimits
    /\ snapshot.query.limit = 2 /\ snapshot.query.offset = 1
    /\ Len(calls) = 2
    /\ Len(calls[1].data) = 2 /\ Len(calls[2].data) = 1
    /\ Len(ret.data) = 2

\* --------------------------------------------------------------------- C31
\* C31: when a time split returns fewer than limit rows, every instant of
\* [from_date, to_date) lies in the window of one of its probes and no window
\* reaches outside the range; over a faithful store the range then holds
\* fewer than offset + limit rows, and the rows returned are all of them but
\* the first offset ones.
C31_Covered ==
    \A t \in from_date .. to_date - 1 :
        \E i \in DOMAIN calls : ProbeStart(calls[i]) <= t /\ t < ProbeEnd(calls[i])

C31_RangeExhausted ==
    (path = "time" /\ pc = "returned" /\ Len(ret.data) < snapshot.query.limit)
        => /\ C31_Covered
           /\ \A i \in DOMAIN calls :
                from_date <= ProbeStart(calls[i]) /\ ProbeEnd(calls[i]) <= to_date
           /\ runner = "faithful" =>
                LET inrange == Matching(snapshot, store)
                IN /\ Cardinality(inrange) < snapshot.query.offset + snapshot.query.limit
                   /\ Len(ret.data) =
                        Max2(Cardinality(inrange) - snapshot.query.offset, 0)

\* Three probes went down the whole range and found one row where two were
\* asked for.
C31_Witness ==
    /\ path = "time" /\ pc = "returned" /\ runner = "faithful"
    /\ snapshot.query.limit = 2 /\ Len(ret.data) = 1
    /\ to_date - from_date = 3 /\ Len(calls) = 3
    /\ C31_Covered

\* --------------------------------------------------------------------- C32
\* C32: with a configured window of 2 hours and a range of 90 days, while
\* every probe of a time split comes back without rows the probes are at most
\* four, with windows of 2, 20, 200 and 1938 hours (what is left of the range
\* under a step of 2000 hours), one below the other from to_date down to
\* from_date, and the time split returns after exactly four runner calls.
C32_EmptyProbes ==
    \A i \in DOMAIN calls : ~calls[i].raised /\ calls[i].data = <<>>

C32_ProbeCount ==
    LET windows == <<2, 20, 200, 1938>>
    IN (/\ path = "time" /\ config.split_step = 2
        /\ to_date - from_date = 90 * 24
        /\ C32_EmptyProbes)
        => /\ Len(calls) <= 4
           /\ \A i \in DOMAIN calls :
                ProbeEnd(calls[i]) - ProbeStart(calls[i]) = windows[i]
           /\ (Len(calls) = 3 /\ pc = "time_loop") => split_step = 2000
           /\ Len(calls) = 4 => ProbeStart(calls[4]) = from_date
           /\ pc = "returned" => Len(calls) = 4

\* The four empty probes were made and the time split returned.
C32_Witness ==
    /\ path = "time" /\ pc = "returned" /\ config.split_step = 2
    /\ to_date - from_date = 90 * 24
    /\ C32_EmptyProbes /\ Len(calls) = 4
    /\ ret.data = <<>>

\* --------------------------------------------------------------------- C33
\* C33: a column split whose first phase found rows makes exactly two runner
\* calls, one after the other: the first selects the minimal columns and its
\* rows are the first-phase result, the second is made once the first has
\* returned and selects the columns of the original request, and what the
\* column split returns is the rows of the second call as the runner gave them.
C33_TwoCalls ==
    (path = "col" /\ first_result.data # <<>>)
        => /\ Len(calls) \in {1, 2}
           /\ \A i \in DOMAIN calls : calls[i].path = "col"
           /\ calls[1].request.query.selected_columns = get_min_columns
           /\ ~calls[1].raised /\ calls[1].data = first_result.data
           /\ pc = "col_phase2" <=> Len(calls) = 1
           /\ Len(calls) = 2 =>
                /\ calls[2].request.query.selected_columns
                        = snapshot.query.selected_columns
                /\ calls[2].request.query.selected_columns # get_min_columns
                /\ pc = (IF calls[2].raised THEN "raised" ELSE "returned")
           /\ pc = "returned" => ret = [isNone |-> FALSE, data |-> calls[2].data]

\* The calls are made one at a time, and the second from the state the first
\* left after it returned.
C33_Ordered ==
    (path' = "col" /\ calls' # calls)
        => /\ calls' = Append(calls, calls'[Len(calls')])
           /\ Len(calls') = 2 => (pc = "col_phase2" /\ ~first_result.isNone)

C33_TwoRoundTrips == []C33_TwoCalls /\ [][C33_Ordered]_vars

\* Both calls made and the second call's two rows returned.
C33_Witness ==
    /\ path = "col" /\ pc = "returned" /\ Len(calls) = 2
    /\ first_result.data # <<>>
    /\ Len(ret.data) = 2 /\ ret.data = calls[2].data

\* --------------------------------------------------------------------- C34
\* The time range a request asks the store for: the tightest of its
\* timeseries extension and its timestamp conditions.
LowerBound(req) ==
    LET q == req.query
        lits == {q.conditions[i][3].iso :
                    i \in {j \in DOMAIN q.conditions :
                            _identify_condition(q.conditions[j], timestamp_column, ">=")}}
                \cup {req.extensions.timeseries.from_date.iso}
    IN CHOOSE m \in lits : \A x \in lits : x <= m

UpperBound(req) ==
    LET q == req.query
        lits == {q.conditions[i][3].iso :
                    i \in {j \in DOMAIN q.conditions :
                            _identify_condition(q.conditions[j], timestamp_column, "<")}}
                \cup {req.extensions.timeseries.to_date.iso}
    IN CHOOSE m \in lits : \A x \in lits : m <= x

\* The dispatcher over the strategies of web/split.py is done with the request
\* SplitQueryPlanExecutionStrategy was run on before.
WebDone ==
    /\ reference.done /\ entry = "web" /\ pc \in {"returned", "raised"}
    /\ ~(pc = "returned" /\ path = "time" /\ ret.isNone)

\* C34: on a request whose extensions say what its conditions say, over the
\* same store and configuration, SplitQueryPlanExecutionStrategy and the
\* dispatcher over ColumnSplitQueryStrategy, TimeSplitQueryStrategy and the
\* direct call take the same path, make the same number of runner calls, each
\* with the same limit, offset, selected columns and time range as its
\* counterpart, and return the same rows.
C34_ImplementationsAgree ==
    WebDone
        => /\ path = reference.path
           /\ Len(calls) = Len(reference.calls)
           /\ \A i \in DOMAIN calls \cap DOMAIN reference.calls :
                LET w == calls[i].request
                    p == reference.calls[i].request
                IN /\ w.query.limit = p.query.limit
                   /\ w.query.offset = p.query.offset
                   /\ w.query.selected_columns = p.query.selected_columns
                   /\ LowerBound(w) = LowerBound(p)
                   /\ UpperBound(w) = UpperBound(p)
                   /\ calls[i].data = reference.calls[i].data
           /\ pc = reference.pc
           /\ ret = reference.ret

\* --------------------------------------------------------------------- C35
\* C35: in subscriptions.run, shutdown_requested once set stays set; run
\* collects results only while it is set; and once it is set, by a signal
\* handler at any point or by run itself after wait returned, all three
\* consumers finish and run collects the outcome of every future and returns.
C35_AllFinished == \A i \in DOMAIN Consumers : Done(futures[i])

C35_Returned ==
    /\ run_pc = "returned"
    /\ \A i \in DOMAIN Consumers :
        outcomes[i] = (IF futures[i] = "finished" THEN "result" ELSE "error")

C35_CollectsAfterRequest ==
    /\ (run_pc \in {"collect", "returned"} \/ \E i \in DOMAIN Consumers : outcomes[i] # "none")
            => shutdown_requested
    /\ \A i \in DOMAIN Consumers : futures[i] = "finished" => shutdown_requested

C35_Shutdown ==
    /\ []C35_CollectsAfterRequest
    /\ [][shutdown_requested => shutdown_requested']_vars
    /\ shutdown_requested ~> C35_AllFinished
    /\ shutdown_requested ~> C35_Returned

\* A consumer failed, wait returned, run asked for the shutdown itself and
\* collected one error and two results.
C35_Witness ==
    /\ C35_Returned /\ signals = 0 /\ shutdown_requested
    /\ futures[2] = "failed" /\ outcomes = <<"result", "error", "result">>

====
